---- MODULE Spec2Model ----
(***************************************************************************)
(* Film search console application: the catalog client (mysql_connector,  *)
(* sql_queries), the analytics client (log_writer, log_stats) and the     *)
(* application loop (main).                                                *)
(*                                                                         *)
(* Strings that are matched or ordered (titles, keywords) are sequences of *)
(* character codes; Python's None and SQL's NULL are the empty tuple and a *)
(* present value v is <<v>>.                                               *)
(***************************************************************************)
EXTENDS Integers, Sequences, FiniteSets, TLC

VARIABLES
    catalog,      \* the relational store: [films, categories]
    store,        \* the analytics collection: documents in insertion order
    w_client,     \* log_writer._mongo_client
    w_collection, \* log_writer._mongo_collection
    r_client,     \* log_stats._mongo_client
    r_collection, \* log_stats._mongo_collection
    sqlConnected, \* whether a pymysql connection was opened before
    sqlOpen,      \* pymysql connections opened and not closed
    op,           \* the last operation called
    args,         \* its arguments
    ret,          \* what it returned
    raised,       \* whether an exception left it
    env,          \* what the storage did during it
    opened,       \* the connections it opened
    scan,         \* the run of consecutive pages fetched so far
    nSearch,      \* main(): the search calls made so far
    nLog,         \* main(): the log_search calls made so far
    pc,           \* main(): the position in the loop
    loc           \* main(): its local variables

vars == <<catalog, store, w_client, w_collection, r_client, r_collection,
          sqlConnected, sqlOpen, op, args, ret, raised,
          env, opened, scan, nSearch, nLog, pc, loc>>

catalogVars == <<sqlConnected, sqlOpen>>
mongoVars == <<store, w_client, w_collection, r_client, r_collection>>
callVars == <<op, args, ret, raised, env, opened>>
mainVars == <<nSearch, nLog, pc, loc>>

-----------------------------------------------------------------------------
(* Bounds of the model *)

MaxFilms == 2
MaxLimit == 2
MaxEvents == 3
MaxSearches == 2

-----------------------------------------------------------------------------
(* Values *)

None == <<>>
Some(v) == <<v>>

Min2(a, b) == IF a <= b THEN a ELSE b

SetMin(S) == CHOOSE x \in S : \A y \in S : x <= y
SetMax(S) == CHOOSE x \in S : \A y \in S : y <= x

\* character codes: "%" 37, "A" 65, "B" 66, "_" 95, "a" 97, "b" 98, ...
Keywords == {<<97>>, <<66>>, <<95>>}
Genres == {"Action", "Drama"}
Years == {2005, 2006}
YearRanges == {<<2005, 2005>>, <<2005, 2006>>}

\* the films a catalog is built from: one with every row the search joins,
\* one in two categories with two actors, one with no actor
FilmKinds ==
    { [title |-> <<65>>, release_year |-> 2005, cats |-> {"Action"}, actors |-> {1}],
      [title |-> <<97, 98>>, release_year |-> 2006,
       cats |-> {"Action", "Drama"}, actors |-> {1, 2}],
      [title |-> <<98>>, release_year |-> 2006, cats |-> {"Action"}, actors |-> {}] }

Film(i, k) ==
    [film_id |-> i, title |-> k.title, release_year |-> k.release_year,
     cats |-> k.cats, actors |-> k.actors]

\* every catalog of n <= MaxFilms films; the category table may be empty only
\* when no film refers to it
Catalogs ==
    UNION { { [films |-> { Film(i, k[i]) : i \in 1..n },
               categories |-> IF n = 0 THEN g ELSE Genres]
              : k \in [1..n -> FilmKinds], g \in {{}, Genres} }
            : n \in 0..MaxFilms }

-----------------------------------------------------------------------------
(* sql_queries: the statements, as the server evaluates them *)

\* the collation of film.title compares letters without regard to case
Fold(c) == IF c \in 65..90 THEN c + 32 ELSE c

\* s LIKE p: "%" matches any run of characters, "_" any one character
RECURSIVE Like(_, _)
Like(s, p) ==
    IF p = <<>> THEN s = <<>>
    ELSE IF Head(p) = 37 THEN Like(s, Tail(p)) \/ (s # <<>> /\ Like(Tail(s), p))
    ELSE IF Head(p) = 95 THEN s # <<>> /\ Like(Tail(s), Tail(p))
    ELSE s # <<>> /\ Fold(Head(s)) = Fold(Head(p)) /\ Like(Tail(s), Tail(p))

\* ORDER BY on a string column: the collation's order
RECURSIVE StrLess(_, _)
StrLess(s, t) ==
    IF t = <<>> THEN FALSE
    ELSE IF s = <<>> THEN TRUE
    ELSE IF Fold(Head(s)) # Fold(Head(t)) THEN Fold(Head(s)) < Fold(Head(t))
    ELSE StrLess(Tail(s), Tail(t))

RECURSIVE StrEq(_, _)
StrEq(s, t) ==
    IF s = <<>> \/ t = <<>> THEN s = t
    ELSE Fold(Head(s)) = Fold(Head(t)) /\ StrEq(Tail(s), Tail(t))

\* FROM film f JOIN film_category JOIN category JOIN film_actor JOIN actor:
\* the films that have a row in every joined table
JoinedFilms(cat) ==
    { f \in cat.films : (f.cats \cap cat.categories) # {} /\ f.actors # {} }

\* the row SELECTed for one group (GROUP BY f.film_id); the rating, genre and
\* actors columns are not read by any operation modelled here
Row(f) == [film_id |-> f.film_id, title |-> f.title, year |-> f.release_year]

\* ORDER BY f.title, and ORDER BY f.release_year, f.title
Less(by, f, g) ==
    IF by = "title" THEN StrLess(f.title, g.title)
    ELSE \/ f.release_year < g.release_year
         \/ f.release_year = g.release_year /\ StrLess(f.title, g.title)

\* the orders ORDER BY allows: rows that compare equal come in any order
RECURSIVE Orders(_, _)
Orders(S, by) ==
    IF S = {} THEN {<<>>}
    ELSE UNION { { <<f>> \o t : t \in Orders(S \ {f}, by) }
                 : f \in { g \in S : \A h \in S : ~Less(by, h, g) } }

\* LIMIT limit OFFSET offset
Slice(rows, limit, offset) ==
    SubSeq(rows, offset + 1, Min2(offset + limit, Len(rows)))

MapRows(fs) == [i \in 1..Len(fs) |-> Row(fs[i])]

SEARCH_BY_KEYWORD_WHERE(cat, pattern) ==
    { f \in JoinedFilms(cat) : Like(f.title, pattern) }

\* the result sets the server may return for SEARCH_BY_KEYWORD
SEARCH_BY_KEYWORD(cat, pattern, limit, offset) ==
    { Slice(MapRows(o), limit, offset)
      : o \in Orders(SEARCH_BY_KEYWORD_WHERE(cat, pattern), "title") }

SEARCH_BY_GENRE_AND_YEAR_WHERE(cat, genre, year_from, year_to) ==
    { f \in JoinedFilms(cat) :
        /\ genre \in (f.cats \cap cat.categories)
        /\ year_from <= f.release_year /\ f.release_year <= year_to }

SEARCH_BY_GENRE_AND_YEAR(cat, genre, year_from, year_to, limit, offset) ==
    { Slice(MapRows(o), limit, offset)
      : o \in Orders(SEARCH_BY_GENRE_AND_YEAR_WHERE(cat, genre, year_from, year_to),
                     "year_title") }

\* genre names are ordered as strings; the model's two names are already in order
GenreOrder == <<"Action", "Drama">>

GET_ALL_GENRES(cat) ==
    LET keep(g) == g \in cat.categories
        names == SelectSeq(GenreOrder, keep)
    IN  [i \in 1..Len(names) |-> [name |-> names[i]]]

\* an aggregate without GROUP BY yields exactly one row; MIN and MAX of no
\* rows are NULL
GET_YEAR_RANGE(cat) ==
    LET ys == { f.release_year : f \in cat.films }
    IN  << [min_year |-> IF ys = {} THEN None ELSE Some(SetMin(ys)),
            max_year |-> IF ys = {} THEN None ELSE Some(SetMax(ys))] >>

-----------------------------------------------------------------------------
(* mysql_connector *)

\* what the server does during one call: the connection is refused, the
\* statement fails (both raise MySQLError in the driver), or neither
SqlOutcomes == {"ok", "connect_error", "execute_error"}

\* get_db_connection: the connection, or None when pymysql.connect raises
get_db_connection(e) == IF e = "connect_error" THEN None ELSE Some("conn")

\* execute_query without its "except MySQLError" clause: the driver's error
\* leaves the function (the finally clause still closes the connection)
execute_query_no_except(e, rows, fetch_all) ==
    IF e = "connect_error"
    THEN [raised |-> FALSE, value |-> <<>>, opened |-> 0, closed |-> 0]
    ELSE IF e = "execute_error"
    THEN [raised |-> TRUE, value |-> <<>>, opened |-> 1, closed |-> 1]
    ELSE [raised |-> FALSE,
          value |-> IF fetch_all THEN rows
                    ELSE IF rows = <<>> THEN None ELSE Some(rows[1]),
          opened |-> 1, closed |-> 1]

\* execute_query: rows is the server's answer to the statement. value is the
\* list returned (fetch_all), or fetchone()'s row: <<row>>, or <<>> for None;
\* opened and closed count the connections it opened and closed
execute_query(e, rows, fetch_all) ==
    LET conn == get_db_connection(e)
    IN  IF conn = None
        THEN [raised |-> FALSE, value |-> <<>>, opened |-> 0, closed |-> 0]
        ELSE IF e = "execute_error"
        THEN [raised |-> FALSE, value |-> <<>>, opened |-> 1, closed |-> 1]
        ELSE [raised |-> FALSE,
              value |-> IF fetch_all THEN rows
                        ELSE IF rows = <<>> THEN None ELSE Some(rows[1]),
              opened |-> 1, closed |-> 1]

\* "%" + keyword + "%"
Pattern(keyword) == <<37>> \o keyword \o <<37>>

search_by_keyword(e, rows) == execute_query(e, rows, TRUE)

search_by_genre_and_year(e, rows) == execute_query(e, rows, TRUE)

get_all_genres(e, rows) ==
    LET result == execute_query(e, rows, TRUE)
    IN  IF result.raised THEN result
        ELSE [result EXCEPT !.value =
                 IF result.value # <<>>
                 THEN [i \in 1..Len(result.value) |-> result.value[i].name]
                 ELSE <<>>]

\* (0, 0) is <<Some(0), Some(0)>>; a NULL column arrives as None
get_year_range(e, rows) ==
    LET result == execute_query(e, rows, FALSE)
    IN  IF result.raised THEN result
        ELSE [result EXCEPT !.value =
                 IF result.value # <<>>
                 THEN <<result.value[1].min_year, result.value[1].max_year>>
                 ELSE <<Some(0), Some(0)>>]

-----------------------------------------------------------------------------
(* log_writer and log_stats: the cached handle *)

\* what the document store does during one call: the MongoClient constructor
\* raises, server_info() raises, the operation on the collection raises (all
\* PyMongoError), or none of them
MongoOutcomes == {"ok", "client_error", "server_error", "run_error"}

\* _get_mongo_collection without its "is not None" test: it connects every time
get_mongo_collection_no_cache(m, e) ==
    IF e = "client_error"
    THEN [client |-> m.client, collection |-> None, opened |-> 0, value |-> None]
    ELSE IF e = "server_error"
    THEN [client |-> Some("MongoClient"), collection |-> None, opened |-> 1,
          value |-> None]
    ELSE [client |-> Some("MongoClient"), collection |-> Some("Collection"),
          opened |-> 1, value |-> Some("Collection")]

\* the module's globals m = [client, collection] after the call, with value,
\* the collection or None it returns, and the clients it constructed. Which
\* object a handle is is not kept: a global is None or holds a handle
get_mongo_collection(m, e) ==
    IF m.collection # None
    THEN [client |-> m.client, collection |-> m.collection, opened |-> 0,
          value |-> m.collection]
    ELSE IF e = "client_error"
    THEN [client |-> m.client, collection |-> None, opened |-> 0, value |-> None]
    ELSE IF e = "server_error"
    THEN [client |-> Some("MongoClient"), collection |-> None, opened |-> 1,
          value |-> None]
    ELSE [client |-> Some("MongoClient"), collection |-> Some("Collection"),
          opened |-> 1, value |-> Some("Collection")]

\* log_stats has its own copy of the function and of the two globals
stats_get_mongo_collection(m, e) == get_mongo_collection(m, e)

-----------------------------------------------------------------------------
(* log_writer *)

\* params is a Python dict: its items <<key, value>> in insertion order
ParamKeys(params) == { params[i][1] : i \in 1..Len(params) }

\* dict.get: the value under key, or None when the key is absent
Field(params, key) ==
    IF key \in ParamKeys(params)
    THEN Some(params[CHOOSE i \in 1..Len(params) : params[i][1] = key][2])
    ELSE None

\* the document log_search builds; insert_one gives it its _id
Doc(now, search_type, params, results_count) ==
    [timestamp |-> now, search_type |-> search_type, params |-> params,
     results_count |-> results_count]

insert_one(coll, doc) ==
    Append(coll, [_id |-> Len(coll) + 1, timestamp |-> doc.timestamp,
                  search_type |-> doc.search_type, params |-> doc.params,
                  results_count |-> doc.results_count])

\* log_search whose except clause reports success
log_search_except_true(m, coll, e, now, search_type, params, results_count) ==
    LET c == get_mongo_collection(m, e)
    IN  IF c.value = None
        THEN [raised |-> FALSE, value |-> FALSE, conn |-> c, store |-> coll]
        ELSE IF e = "run_error"
        THEN [raised |-> FALSE, value |-> TRUE, conn |-> c, store |-> coll]
        ELSE [raised |-> FALSE, value |-> TRUE, conn |-> c,
              store |-> insert_one(coll, Doc(now, search_type, params, results_count))]

\* log_search: now is the reading of datetime.utcnow()
log_search(m, coll, e, now, search_type, params, results_count) ==
    LET c == get_mongo_collection(m, e)
    IN  IF c.value = None
        THEN [raised |-> FALSE, value |-> FALSE, conn |-> c, store |-> coll]
        ELSE IF e = "run_error"
        THEN [raised |-> FALSE, value |-> FALSE, conn |-> c, store |-> coll]
        ELSE [raised |-> FALSE, value |-> TRUE, conn |-> c,
              store |-> insert_one(coll, Doc(now, search_type, params, results_count))]

\* close_connection: e is whether MongoClient.close() raises
close_connection(m, e) ==
    IF m.client # None
    THEN [raised |-> FALSE, client |-> None, collection |-> None]
    ELSE [raised |-> FALSE, client |-> m.client, collection |-> m.collection]

-----------------------------------------------------------------------------
(* log_stats *)

\* a $group stage that groups by the whole params document
GroupIdWholeParams(d) ==
    [keyword |-> Field(d.params, "keyword"),
     genre |-> Field(d.params, "genre"),
     year_range |-> Field(d.params, "year_range"),
     page |-> Field(d.params, "page")]

\* the _id of the $group stage: a field the document lacks is left out (None)
GroupId(d) ==
    [keyword |-> Field(d.params, "keyword"),
     genre |-> Field(d.params, "genre"),
     year_range |-> Field(d.params, "year_range")]

\* $group: one document per _id, with the number of documents grouped
Groups(coll) ==
    { [_id |-> k, count |-> Cardinality({ i \in 1..Len(coll) : GroupId(coll[i]) = k })]
      : k \in { GroupId(coll[i]) : i \in 1..Len(coll) } }

\* $sort {count: -1}: groups of equal count come in any order
RECURSIVE ByCountDesc(_)
ByCountDesc(S) ==
    IF S = {} THEN {<<>>}
    ELSE UNION { { <<g>> \o t : t \in ByCountDesc(S \ {g}) }
                 : g \in { x \in S : \A y \in S : y.count <= x.count } }

\* sort("timestamp", -1): documents of equal timestamp come in any order
RECURSIVE ByTimestampDesc(_)
ByTimestampDesc(S) ==
    IF S = {} THEN {<<>>}
    ELSE UNION { { <<d>> \o t : t \in ByTimestampDesc(S \ {d}) }
                 : d \in { x \in S : \A y \in S : y.timestamp <= x.timestamp } }

First(q, limit) == SubSeq(q, 1, Min2(limit, Len(q)))

\* the answers the server may give to the pipeline $group, $sort, $limit
Aggregate(coll, limit) == { First(o, limit) : o \in ByCountDesc(Groups(coll)) }

\* the answers the server may give to find().sort("timestamp", -1).limit(limit)
FindRecent(coll, limit) ==
    { First(o, limit) : o \in ByTimestampDesc({ coll[i] : i \in 1..Len(coll) }) }

\* get_popular_queries: answer is the server's answer to the pipeline
get_popular_queries(m, e, answer) ==
    LET c == stats_get_mongo_collection(m, e)
    IN  IF c.value = None THEN [raised |-> FALSE, value |-> <<>>, conn |-> c]
        ELSE IF e = "run_error" THEN [raised |-> FALSE, value |-> <<>>, conn |-> c]
        ELSE [raised |-> FALSE, value |-> answer, conn |-> c]

get_recent_queries(m, e, answer) ==
    LET c == stats_get_mongo_collection(m, e)
    IN  IF c.value = None THEN [raised |-> FALSE, value |-> <<>>, conn |-> c]
        ELSE IF e = "run_error" THEN [raised |-> FALSE, value |-> <<>>, conn |-> c]
        ELSE [raised |-> FALSE, value |-> answer, conn |-> c]

-----------------------------------------------------------------------------
(* The state after the modules are imported *)

NoScan == [keyword |-> <<>>, limit |-> 0, pages |-> <<>>, ok |-> TRUE]

NoLocals == [keyword |-> <<>>, page |-> 0, genres |-> <<>>, genre |-> "",
             min_year |-> None, max_year |-> None, year_choice |-> "",
             year_from |-> 0, year_to |-> 0, results |-> <<>>, nav |-> ""]

InitProcess ==
    /\ store = <<>>
    /\ w_client = None
    /\ w_collection = None
    /\ r_client = None
    /\ r_collection = None
    /\ sqlConnected = FALSE
    /\ sqlOpen = 0
    /\ op = "import"
    /\ args = <<>>
    /\ ret = <<>>
    /\ raised = FALSE
    /\ env = "ok"
    /\ opened = 0
    /\ scan = NoScan
    /\ nSearch = 0
    /\ nLog = 0
    /\ pc = "import"
    /\ loc = NoLocals

-----------------------------------------------------------------------------
(* Calls of the catalog client *)

\* the bookkeeping common to the four calls
SqlCall(name, a, e, r) ==
    /\ op' = name
    /\ args' = a
    /\ env' = e
    /\ ret' = r.value
    /\ raised' = r.raised
    /\ opened' = r.opened
    /\ sqlConnected' = (sqlConnected \/ r.opened > 0)
    /\ sqlOpen' = sqlOpen + r.opened - r.closed

\* the run of pages at offsets 0, limit, 2*limit, ... of one keyword
ScanStep(keyword, limit, offset, e, page) ==
    IF /\ scan.pages # <<>>
       /\ scan.keyword = keyword /\ scan.limit = limit
       /\ offset = Len(scan.pages) * limit
       /\ Len(scan.pages[Len(scan.pages)]) = limit
    THEN [scan EXCEPT !.pages = Append(@, page), !.ok = @ /\ e = "ok"]
    ELSE IF offset = 0
    THEN [keyword |-> keyword, limit |-> limit, pages |-> <<page>>, ok |-> e = "ok"]
    ELSE NoScan

SearchByKeywordDo(keyword, limit, offset, e) ==
    \E rows \in SEARCH_BY_KEYWORD(catalog, Pattern(keyword), limit, offset) :
        LET r == search_by_keyword(e, rows)
        IN  /\ SqlCall("search_by_keyword",
                       [keyword |-> keyword, limit |-> limit, offset |-> offset], e, r)
            /\ UNCHANGED <<catalog, mongoVars>>

SearchByGenreAndYearDo(genre, year_from, year_to, limit, offset, e) ==
    \E rows \in SEARCH_BY_GENRE_AND_YEAR(catalog, genre, year_from, year_to,
                                         limit, offset) :
        /\ SqlCall("search_by_genre_and_year",
                   [genre |-> genre, year_from |-> year_from, year_to |-> year_to,
                    limit |-> limit, offset |-> offset],
                   e, search_by_genre_and_year(e, rows))
        /\ UNCHANGED <<catalog, mongoVars>>

GetAllGenresDo(e) ==
    /\ SqlCall("get_all_genres", <<>>, e, get_all_genres(e, GET_ALL_GENRES(catalog)))
    /\ UNCHANGED <<catalog, mongoVars>>

GetYearRangeDo(e) ==
    /\ SqlCall("get_year_range", <<>>, e, get_year_range(e, GET_YEAR_RANGE(catalog)))
    /\ UNCHANGED <<catalog, mongoVars>>

CallSearchByKeyword ==
    \E keyword \in Keywords, limit \in 1..MaxLimit, offset \in 0..MaxLimit,
       e \in SqlOutcomes :
        /\ SearchByKeywordDo(keyword, limit, offset, e)
        /\ scan' = IF raised' THEN NoScan ELSE ScanStep(keyword, limit, offset, e, ret')
        /\ UNCHANGED mainVars

CallSearchByGenreAndYear ==
    \E genre \in Genres, yr \in YearRanges, limit \in 1..MaxLimit, e \in SqlOutcomes :
      \E offset \in {0, limit} :
        /\ SearchByGenreAndYearDo(genre, yr[1], yr[2], limit, offset, e)
        /\ scan' = NoScan
        /\ UNCHANGED mainVars

CallGetAllGenres ==
    \E e \in SqlOutcomes : GetAllGenresDo(e) /\ scan' = NoScan /\ UNCHANGED mainVars

CallGetYearRange ==
    \E e \in SqlOutcomes : GetYearRangeDo(e) /\ scan' = NoScan /\ UNCHANGED mainVars

InitCatalog == InitProcess /\ catalog \in Catalogs

NextCatalog ==
    \/ CallSearchByKeyword
    \/ CallSearchByGenreAndYear
    \/ CallGetAllGenres
    \/ CallGetYearRange

SpecCatalog == InitCatalog /\ [][NextCatalog]_vars

-----------------------------------------------------------------------------
(* Calls of the analytics client *)

Writer == [client |-> w_client, collection |-> w_collection]
Reader == [client |-> r_client, collection |-> r_collection]

\* a cached handle is returned without touching the server
MongoEnvs(m) == IF m.collection # None THEN {"ok", "run_error"} ELSE MongoOutcomes

\* datetime.utcnow() as the store keeps it: not before the last timestamp
\* stored, and equal to it when both fall in the same tick; time is counted
\* from the first event
LastTimestamp == IF store = <<>> THEN 0 ELSE store[Len(store)].timestamp
Nows == IF store = <<>> THEN {1} ELSE {LastTimestamp, LastTimestamp + 1}

LogInputs ==
    { [search_type |-> "keyword",
       params |-> << <<"keyword", <<97>>>>, <<"page", 2>> >>, results_count |-> 1],
      [search_type |-> "keyword",
       params |-> << <<"page", 3>>, <<"keyword", <<97>>>> >>, results_count |-> 0],
      [search_type |-> "genre_year",
       params |-> << <<"genre", "Action">>, <<"year_range", "2005">> >>,
       results_count |-> 1] }

LogSearchDo(in, now, e) ==
    /\ Len(store) < MaxEvents
    /\ LET r == log_search(Writer, store, e, now,
                           in.search_type, in.params, in.results_count)
       IN  /\ op' = "log_search"
           /\ args' = in
           /\ env' = e
           /\ ret' = r.value
           /\ raised' = r.raised
           /\ opened' = r.conn.opened
           /\ store' = r.store
           /\ w_client' = r.conn.client
           /\ w_collection' = r.conn.collection
    /\ UNCHANGED <<catalog, catalogVars, r_client, r_collection>>

StatsCall(name, limit, e, r) ==
    /\ op' = name
    /\ args' = [limit |-> limit]
    /\ env' = e
    /\ ret' = r.value
    /\ raised' = r.raised
    /\ opened' = r.conn.opened
    /\ r_client' = r.conn.client
    /\ r_collection' = r.conn.collection
    /\ UNCHANGED <<catalog, catalogVars, store, w_client, w_collection>>

PopularQueriesDo(limit, e) ==
    \E answer \in Aggregate(store, limit) :
        StatsCall("get_popular_queries", limit, e,
                  get_popular_queries(Reader, e, answer))

RecentQueriesDo(limit, e) ==
    \E answer \in FindRecent(store, limit) :
        StatsCall("get_recent_queries", limit, e,
                  get_recent_queries(Reader, e, answer))

CloseConnectionDo(e) ==
    LET r == close_connection(Writer, e)
    IN  /\ op' = "close_connection"
        /\ args' = <<>>
        /\ env' = e
        /\ ret' = None
        /\ raised' = r.raised
        /\ opened' = 0
        /\ w_client' = r.client
        /\ w_collection' = r.collection
        /\ UNCHANGED <<catalog, catalogVars, store, r_client, r_collection>>

CallLogSearch ==
    \E in \in LogInputs, now \in Nows, e \in MongoEnvs(Writer) :
        LogSearchDo(in, now, e) /\ UNCHANGED <<scan, mainVars>>

CallGetPopularQueries ==
    \E limit \in 1..MaxLimit, e \in MongoEnvs(Reader) :
        PopularQueriesDo(limit, e) /\ UNCHANGED <<scan, mainVars>>

CallGetRecentQueries ==
    \E limit \in 1..MaxLimit, e \in MongoEnvs(Reader) :
        RecentQueriesDo(limit, e) /\ UNCHANGED <<scan, mainVars>>

CallCloseConnection ==
    \E e \in {"ok", "run_error"} : CloseConnectionDo(e) /\ UNCHANGED <<scan, mainVars>>

EmptyCatalog == [films |-> {}, categories |-> {}]

InitAnalytics == InitProcess /\ catalog = EmptyCatalog

NextAnalytics ==
    \/ CallLogSearch
    \/ CallGetPopularQueries
    \/ CallGetRecentQueries
    \/ CallCloseConnection

SpecAnalytics == InitAnalytics /\ [][NextAnalytics]_vars

-----------------------------------------------------------------------------
(* main: the application loop *)

\* the page size main passes as limit, and the default limit of the two
\* statistics calls
PageSize == 10
StatsLimit == 5

MainKeywords == {<<97>>}
GenreInputs == {"Action", "Horror"}
Choices == {"1", "2", "3", "?"}

\* what the user types at a year prompt: digits (int() gives value) or not
YearInputs ==
    { [numeric |-> TRUE, value |-> y] : y \in {0} \cup Years }
      \cup { [numeric |-> FALSE, value |-> 0] }

\* more films than one page holds, all matching the keyword "a"
BigCatalog ==
    [films |-> { [film_id |-> i, title |-> <<97, 97 + i>>,
                  release_year |-> IF i <= PageSize THEN 2005 ELSE 2006,
                  cats |-> {"Action"}, actors |-> {1}] : i \in 1..(PageSize + 1) },
     categories |-> Genres]

MainCatalogs == {EmptyCatalog, [films |-> {}, categories |-> Genres], BigCatalog}

\* line 49 logging a keyword other than the one searched
KeywordLogArgsOtherKeyword(keyword, page, results) ==
    [search_type |-> "keyword",
     params |-> << <<"keyword", keyword \o <<98>>>>, <<"page", page + 1>> >>,
     results_count |-> Len(results)]

\* line 49 passing the limit of the search instead of len(results)
KeywordLogArgsLimit(keyword, page, results) ==
    [search_type |-> "keyword",
     params |-> << <<"keyword", keyword>>, <<"page", page + 1>> >>,
     results_count |-> PageSize]

\* log_search's arguments on line 49 and on lines 126-128
KeywordLogArgs(keyword, page, results) ==
    [search_type |-> "keyword",
     params |-> << <<"keyword", keyword>>, <<"page", page + 1>> >>,
     results_count |-> Len(results)]

\* str(year_from), or year_from "-" year_to
YearParam(year_choice, year_from, year_to) ==
    IF year_choice = "1" THEN <<year_from>> ELSE <<year_from, year_to>>

GenreYearLogArgs(genre, year_choice, year_from, year_to, results) ==
    [search_type |-> "genre_year",
     params |-> << <<"genre", genre>>,
                   <<"year_range", YearParam(year_choice, year_from, year_to)>> >>,
     results_count |-> Len(results)]

\* lines 55-58 without the "page > 1" test
NavigateNoFloor(page, nav) ==
    IF nav = "1" THEN page - 1
    ELSE IF nav = "2" THEN page + 1
    ELSE page

\* the page after a navigation input
Navigate(page, nav) ==
    IF nav = "1" THEN (IF page > 1 THEN page - 1 ELSE page)
    ELSE IF nav = "2" THEN page + 1
    ELSE page

\* min_year <= year <= max_year: comparing None with an int raises TypeError
InRange(lo, y, hi) ==
    IF lo = None THEN "TypeError"
    ELSE IF ~(lo[1] <= y) THEN "no"
    ELSE IF hi = None THEN "TypeError"
    ELSE IF y <= hi[1] THEN "yes" ELSE "no"

\* an input step: no storage call
Frame == UNCHANGED <<catalog, catalogVars, mongoVars, callVars, scan, nSearch, nLog>>

\* no call is in progress and nothing a call returned is still held
NoCall ==
    /\ op' = "prompt" /\ args' = <<>> /\ ret' = <<>> /\ raised' = FALSE
    /\ env' = "ok" /\ opened' = 0

\* back at the top of the outer loop every local is dead, as is what the last
\* call returned: each is assigned again before it is read, so the model
\* clears them
ToMenu ==
    /\ pc' = "menu"
    /\ loc' = NoLocals
    /\ NoCall
    /\ UNCHANGED <<catalog, catalogVars, mongoVars, scan, nSearch, nLog>>

\* the process ends: its locals, its module globals and the record of its
\* last call go with it; the two stores stay
Terminate(how) ==
    /\ pc' = how
    /\ loc' = NoLocals
    /\ w_client' = None /\ w_collection' = None
    /\ r_client' = None /\ r_collection' = None
    /\ op' = "exit" /\ args' = <<>> /\ ret' = <<>> /\ raised' = (how = "crashed")
    /\ env' = "ok" /\ opened' = 0
    /\ UNCHANGED <<catalog, catalogVars, store, scan, nSearch, nLog>>

\* choice "1" and the keyword prompt
MenuKeyword ==
    /\ pc = "menu"
    /\ nSearch < MaxSearches
    /\ \E keyword \in MainKeywords :
          loc' = [loc EXCEPT !.keyword = keyword, !.page = 1]
    /\ pc' = "kw_search"
    /\ Frame

KeywordSearch ==
    /\ pc = "kw_search"
    /\ nSearch < MaxSearches
    /\ nSearch' = nSearch + 1
    /\ UNCHANGED <<scan, nLog>>
    /\ \E e \in SqlOutcomes :
          SearchByKeywordDo(loc.keyword, PageSize, (loc.page - 1) * PageSize, e)
    /\ loc' = [loc EXCEPT !.results = ret']
    /\ pc' = "kw_log"

KeywordLog ==
    /\ pc = "kw_log"
    /\ \E now \in Nows, e \in MongoEnvs(Writer) :
          LogSearchDo(KeywordLogArgs(loc.keyword, loc.page, loc.results), now, e)
    /\ pc' = "kw_nav"
    /\ nLog' = nLog + 1
    /\ UNCHANGED <<loc, scan, nSearch>>

\* the navigation prompt asked again on unrecognised input, without a new search
KeywordNavAskAgain ==
    /\ pc = "kw_nav"
    /\ \E nav \in Choices :
          IF nav = "3"
          THEN ToMenu
          ELSE /\ loc' = [loc EXCEPT !.page = Navigate(loc.page, nav), !.nav = nav]
               /\ pc' = IF nav \in {"1", "2"} THEN "kw_search" ELSE "kw_nav"
               /\ Frame

KeywordNav ==
    /\ pc = "kw_nav"
    /\ \E nav \in Choices :
          IF nav = "3"
          THEN ToMenu
          ELSE /\ loc' = [loc EXCEPT !.page = Navigate(loc.page, nav), !.nav = nav]
               /\ pc' = "kw_search"
               /\ Frame

\* choice "2": the genre list, then the year range
MenuGenres ==
    /\ pc = "menu"
    /\ nSearch < MaxSearches
    /\ \E e \in SqlOutcomes : GetAllGenresDo(e)
    /\ loc' = [loc EXCEPT !.genres = ret']
    /\ pc' = "year_range"
    /\ UNCHANGED <<scan, nSearch, nLog>>

MainYearRange ==
    /\ pc = "year_range"
    /\ \E e \in SqlOutcomes : GetYearRangeDo(e)
    /\ loc' = [loc EXCEPT !.min_year = ret'[1], !.max_year = ret'[2]]
    /\ pc' = "genre_input"
    /\ UNCHANGED <<scan, nSearch, nLog>>

\* the genre prompt and the year-mode prompt
GenreInput ==
    /\ pc = "genre_input"
    /\ \E genre \in GenreInputs, year_choice \in Choices :
          IF genre \notin { loc.genres[i] : i \in 1..Len(loc.genres) }
          THEN ToMenu
          ELSE IF year_choice \notin {"1", "2"}
          THEN ToMenu
          ELSE /\ loc' = [loc EXCEPT !.genre = genre, !.year_choice = year_choice]
               /\ pc' = IF year_choice = "1" THEN "year_one" ELSE "year_two"
               /\ Frame

\* one pass of the "specific year" prompt loop; TypeError is not caught by
\* "except ValueError" and ends the process
YearOne ==
    /\ pc = "year_one"
    /\ \E in \in YearInputs :
          IF ~in.numeric
          THEN UNCHANGED <<pc, loc>> /\ Frame
          ELSE LET c == InRange(loc.min_year, in.value, loc.max_year)
               IN  IF c = "TypeError"
                   THEN Terminate("crashed")
                   ELSE IF c = "yes"
                   THEN /\ loc' = [loc EXCEPT !.year_from = in.value,
                                              !.year_to = in.value, !.page = 1]
                        /\ pc' = "gy_search"
                        /\ Frame
                   ELSE UNCHANGED <<pc, loc>> /\ Frame

\* one pass of the "year range" prompt loop; a pass that prompts again leaves
\* year_from and year_to dead, and the model leaves them as they were
YearTwo ==
    /\ pc = "year_two"
    /\ \E a \in YearInputs, b \in YearInputs :
          IF ~a.numeric \/ ~b.numeric
          THEN UNCHANGED <<pc, loc>> /\ Frame
          ELSE LET ca == InRange(loc.min_year, a.value, loc.max_year)
                   cb == InRange(loc.min_year, b.value, loc.max_year)
               IN  IF ca = "TypeError" \/ (ca = "yes" /\ cb = "TypeError")
                   THEN Terminate("crashed")
                   ELSE IF ca = "no" \/ cb = "no" \/ a.value > b.value
                   THEN UNCHANGED <<pc, loc>> /\ Frame
                   ELSE /\ loc' = [loc EXCEPT !.year_from = a.value,
                                              !.year_to = b.value, !.page = 1]
                        /\ pc' = "gy_search"
                        /\ Frame

GenreYearSearch ==
    /\ pc = "gy_search"
    /\ nSearch < MaxSearches
    /\ nSearch' = nSearch + 1
    /\ UNCHANGED <<scan, nLog>>
    /\ \E e \in SqlOutcomes :
          SearchByGenreAndYearDo(loc.genre, loc.year_from, loc.year_to, PageSize,
                                 (loc.page - 1) * PageSize, e)
    /\ loc' = [loc EXCEPT !.results = ret']
    /\ pc' = "gy_log"

GenreYearLog ==
    /\ pc = "gy_log"
    /\ \E now \in Nows, e \in MongoEnvs(Writer) :
          LogSearchDo(GenreYearLogArgs(loc.genre, loc.year_choice, loc.year_from,
                                       loc.year_to, loc.results), now, e)
    /\ pc' = "gy_nav"
    /\ nLog' = nLog + 1
    /\ UNCHANGED <<loc, scan, nSearch>>

GenreYearNav ==
    /\ pc = "gy_nav"
    /\ \E nav \in Choices :
          IF nav = "3"
          THEN ToMenu
          ELSE /\ loc' = [loc EXCEPT !.page = Navigate(loc.page, nav), !.nav = nav]
               /\ pc' = "gy_search"
               /\ Frame

\* choice "3"
MenuPopular ==
    /\ pc = "menu"
    /\ \E e \in MongoEnvs(Reader) : PopularQueriesDo(StatsLimit, e)
    /\ pc' = "stats_shown"
    /\ UNCHANGED <<scan, nSearch, nLog, loc>>

\* choice "4"
MenuRecent ==
    /\ pc = "menu"
    /\ \E e \in MongoEnvs(Reader) : RecentQueriesDo(StatsLimit, e)
    /\ pc' = "stats_shown"
    /\ UNCHANGED <<scan, nSearch, nLog, loc>>

\* format_statistics_results has printed the table
StatsShown ==
    /\ pc = "stats_shown"
    /\ ToMenu

\* choice "5"
MenuExit ==
    /\ pc = "menu"
    /\ Terminate("done")

\* any other choice
MenuInvalid ==
    /\ pc = "menu"
    /\ UNCHANGED <<pc, loc>>
    /\ Frame

InitMain == InitProcess /\ catalog \in MainCatalogs

\* python main.py: main() is called
MainStart ==
    /\ pc = "import"
    /\ pc' = "menu"
    /\ UNCHANGED loc
    /\ Frame

NextMain ==
    \/ MainStart
    \/ MenuKeyword
    \/ KeywordSearch
    \/ KeywordLog
    \/ KeywordNav
    \/ MenuGenres
    \/ MainYearRange
    \/ GenreInput
    \/ YearOne
    \/ YearTwo
    \/ GenreYearSearch
    \/ GenreYearLog
    \/ GenreYearNav
    \/ MenuPopular
    \/ MenuRecent
    \/ StatsShown
    \/ MenuExit
    \/ MenuInvalid

SpecMain == InitMain /\ [][NextMain]_vars

-----------------------------------------------------------------------------
(* Calls of both clients in one process *)

OneFilmCatalog ==
    [films |-> { [film_id |-> 1, title |-> <<65>>, release_year |-> 2005,
                  cats |-> {"Action"}, actors |-> {1}] },
     categories |-> Genres]

InitStores == InitProcess /\ catalog = OneFilmCatalog

StoresSearchByKeyword ==
    \E e \in SqlOutcomes :
        SearchByKeywordDo(<<97>>, 1, 0, e) /\ UNCHANGED <<scan, mainVars>>

StoresSearchByGenreAndYear ==
    \E e \in SqlOutcomes :
        SearchByGenreAndYearDo("Action", 2005, 2006, 1, 0, e)
        /\ UNCHANGED <<scan, mainVars>>

StoresGetAllGenres ==
    \E e \in SqlOutcomes : GetAllGenresDo(e) /\ UNCHANGED <<scan, mainVars>>

StoresGetYearRange ==
    \E e \in SqlOutcomes : GetYearRangeDo(e) /\ UNCHANGED <<scan, mainVars>>

StoresLogSearch ==
    \E e \in MongoEnvs(Writer) :
        LogSearchDo(KeywordLogArgs(<<97>>, 1, <<>>), LastTimestamp + 1, e)
        /\ UNCHANGED <<scan, mainVars>>

StoresGetPopularQueries ==
    \E e \in MongoEnvs(Reader) :
        PopularQueriesDo(StatsLimit, e) /\ UNCHANGED <<scan, mainVars>>

StoresGetRecentQueries ==
    \E e \in MongoEnvs(Reader) :
        RecentQueriesDo(1, e) /\ UNCHANGED <<scan, mainVars>>

NextStores ==
    \/ StoresSearchByKeyword
    \/ StoresSearchByGenreAndYear
    \/ StoresGetAllGenres
    \/ StoresGetYearRange
    \/ StoresLogSearch
    \/ StoresGetPopularQueries
    \/ StoresGetRecentQueries
    \/ CallCloseConnection

SpecStores == InitStores /\ [][NextStores]_vars

-----------------------------------------------------------------------------
(* Properties of the catalog client *)

Range(q) == { q[i] : i \in 1..Len(q) }

RECURSIVE Concat(_)
Concat(qs) == IF qs = <<>> THEN <<>> ELSE Head(qs) \o Concat(Tail(qs))

Ids(rows) == [i \in 1..Len(rows) |-> rows[i].film_id]

NoRepeat(q) == \A i, j \in 1..Len(q) : q[i] = q[j] => i = j

\* keyword occurs in title as a substring, letters compared without case
Contains(title, keyword) ==
    \E i \in 0..(Len(title) - Len(keyword)) :
        \A j \in 1..Len(keyword) : Fold(title[i + j]) = Fold(keyword[j])

TitleMatches(cat, keyword) == { f \in cat.films : Contains(f.title, keyword) }

ScanComplete == scan.pages # <<>> /\ Len(scan.pages[Len(scan.pages)]) < scan.limit

\* C1: with the storage answering every call, each page of search_by_keyword
\* holds at most limit records, no film is on two of the pages at offsets
\* 0, limit, 2*limit, ..., and once a page comes back short every film the
\* statement selects for the keyword has been on one of them.
C1_PagesPartition ==
    (scan.pages # <<>> /\ scan.ok) =>
        /\ \A i \in 1..Len(scan.pages) : Len(scan.pages[i]) <= scan.limit
        /\ NoRepeat(Ids(Concat(scan.pages)))
        /\ ScanComplete =>
              Range(Ids(Concat(scan.pages))) =
                { f.film_id : f \in SEARCH_BY_KEYWORD_WHERE(catalog, Pattern(scan.keyword)) }

\* C2: with the storage answering, search_by_keyword returns the slice
\* [offset, offset + limit) of the films whose title contains the keyword
\* (letters compared without case), one record per film, in title order.
C2_KeywordSlice ==
    (op = "search_by_keyword" /\ env = "ok") =>
        ret \in { Slice(MapRows(o), args.limit, args.offset)
                  : o \in Orders(TitleMatches(catalog, args.keyword), "title") }

YearsOf(cat) == { f.release_year : f \in cat.films }

\* C3: get_year_range returns (0, 0) when the catalog has no film or cannot
\* be reached, and otherwise the least and the greatest release_year.
C3_YearRange ==
    op = "get_year_range" =>
        ret = IF env # "ok" \/ catalog.films = {}
              THEN <<Some(0), Some(0)>>
              ELSE <<Some(SetMin(YearsOf(catalog))), Some(SetMax(YearsOf(catalog)))>>

CatalogOps ==
    {"search_by_keyword", "search_by_genre_and_year", "get_all_genres", "get_year_range"}

\* C4: when the connection or the statement fails, none of the four catalog
\* calls lets an exception out: the searches and the genre list return the
\* empty list and get_year_range returns (0, 0).
C4_FailureDegrades ==
    (op \in CatalogOps /\ env # "ok") =>
        /\ ~raised
        /\ ret = IF op = "get_year_range" THEN <<Some(0), Some(0)>> ELSE <<>>

C4_Witness ==
    /\ op = "get_year_range" /\ env = "execute_error" /\ catalog.films # {}
    /\ ~raised /\ ret = <<Some(0), Some(0)>>

-----------------------------------------------------------------------------
(* Properties of the analytics client *)

IsPrefix(p, q) == Len(p) <= Len(q) /\ SubSeq(q, 1, Len(p)) = p

\* C6: no step changes or removes a stored Search Event; a log_search call
\* never raises, returns true exactly when the storage did not fail, then
\* has added one document holding its arguments, and otherwise has left the
\* collection as it was.
C6_AppendOnly ==
    [][ /\ IsPrefix(store, store')
        /\ op' = "log_search" =>
              /\ raised' = FALSE
              /\ ret' = (env' = "ok")
              /\ ret' = TRUE =>
                    /\ Len(store') = Len(store) + 1
                    /\ store'[Len(store')].search_type = args'.search_type
                    /\ store'[Len(store')].params = args'.params
                    /\ store'[Len(store')].results_count = args'.results_count
                    /\ store'[Len(store')].timestamp >= LastTimestamp
              /\ ret' = FALSE => store' = store ]_vars

C6_Witness ==
    /\ op = "log_search" /\ ret = TRUE /\ Len(store) = 2
    /\ store[2].params = args.params /\ store[1].params # store[2].params

\* document d has the triple id: each of keyword, genre and year_range is
\* either absent from d.params and None in id, or present with id's value
HasTriple(d, id) ==
    \A k \in {"keyword", "genre", "year_range"} :
        \/ id[k] = None /\ \A i \in 1..Len(d.params) : d.params[i][1] # k
        \/ id[k] # None /\ \E i \in 1..Len(d.params) : d.params[i] = <<k, id[k][1]>>

RECURSIVE SumCounts(_)
SumCounts(q) == IF q = <<>> THEN 0 ELSE Head(q).count + SumCounts(Tail(q))

\* C7: get_popular_queries(limit) returns at most limit groups with distinct
\* triples (keyword, genre, year_range), each counted by the number of stored
\* events having that triple whatever their other fields and field order,
\* in non-increasing order of count, the counts summing to at most the
\* number of stored events.
C7_PopularGroups ==
    op = "get_popular_queries" =>
        /\ ~raised
        /\ Len(ret) <= args.limit
        /\ \A i, j \in 1..Len(ret) :
              (ret[i]._id.keyword = ret[j]._id.keyword
               /\ ret[i]._id.genre = ret[j]._id.genre
               /\ ret[i]._id.year_range = ret[j]._id.year_range) => i = j
        /\ \A i \in 1..Len(ret) :
              ret[i].count =
                Cardinality({ k \in 1..Len(store) : HasTriple(store[k], ret[i]._id) })
        /\ \A i \in 1..(Len(ret) - 1) : ret[i].count >= ret[i + 1].count
        /\ SumCounts(ret) <= Len(store)

C7_Witness ==
    /\ op = "get_popular_queries" /\ Len(ret) = 2
    /\ ret[1].count = 2 /\ ret[2].count = 1
    /\ \E i, j \in 1..Len(store) :
          /\ HasTriple(store[i], ret[1]._id) /\ HasTriple(store[j], ret[1]._id)
          /\ store[i].params # store[j].params

\* C8: when the store answers, get_recent_queries(limit), limit >= 1, returns
\* at most limit events in non-increasing timestamp order, the first being the
\* event the latest successful log_search wrote.
C8_RecentFirst ==
    (op = "get_recent_queries" /\ env = "ok" /\ store # <<>>) =>
        /\ Len(ret) <= args.limit
        /\ \A i \in 1..(Len(ret) - 1) : ret[i].timestamp >= ret[i + 1].timestamp
        /\ ret[1] = store[Len(store)]

\* C9: after close_connection no cached analytics handle exists, in either
\* module, and no exception has left it.
C9_CloseClearsAll ==
    op = "close_connection" =>
        /\ ~raised
        /\ w_collection = None
        /\ r_collection = None

-----------------------------------------------------------------------------
(* Properties of the application loop and of the connections *)

SearchOps == {"search_by_keyword", "search_by_genre_and_year"}

\* C5: every log_search call of the loop comes right after a search call and
\* passes, and on success stores, as results_count the length of the page that
\* search returned.
C5_LoggedCountIsPageLength ==
    [][ (op' = "log_search" /\ pc \in {"kw_log", "gy_log"}) =>
          /\ op \in SearchOps
          /\ args'.results_count = Len(ret)
          /\ ret' = TRUE => store'[Len(store')].results_count = Len(ret) ]_vars

C5_Witness ==
    /\ pc = "kw_nav" /\ op = "log_search" /\ ret = TRUE
    /\ store[Len(store)].results_count = PageSize
    /\ Cardinality(SEARCH_BY_KEYWORD_WHERE(catalog, Pattern(loc.keyword))) > PageSize

StatsOps == {"get_popular_queries", "get_recent_queries"}

\* C10 as amended: a catalog call opens its own connection and closes it
\* before it returns; log_writer and log_stats each construct a client only
\* when their own cached collection is None, and otherwise keep and reuse it.
C10_HandlePerModule ==
    [][ /\ op' \in CatalogOps =>
              /\ opened' = (IF env' = "connect_error" THEN 0 ELSE 1)
              /\ sqlOpen' = 0
        /\ op' = "log_search" =>
              /\ opened' = 1 => w_collection = None
              /\ w_collection # None =>
                    w_collection' = w_collection /\ w_client' = w_client
              /\ UNCHANGED <<r_client, r_collection>>
        /\ op' \in StatsOps =>
              /\ opened' = 1 => r_collection = None
              /\ r_collection # None =>
                    r_collection' = r_collection /\ r_client' = r_client
              /\ UNCHANGED <<w_client, w_collection>> ]_vars

C10_Witness ==
    /\ op = "log_search" /\ ret = TRUE /\ opened = 0 /\ Len(store) = 2
    /\ w_collection # None /\ r_collection # None
    /\ sqlConnected /\ sqlOpen = 0

\* C10: each store has one handle, created on the first call that needs it and
\* reused afterwards: a call opens a connection to a store only when none was
\* opened to it before or none is cached.
C10_SingleHandlePerStore ==
    [][ /\ (op' \in CatalogOps /\ opened' = 1) => ~sqlConnected
        /\ (op' \in StatsOps \cup {"log_search"} /\ opened' = 1) =>
              (w_collection = None /\ r_collection = None) ]_vars

\* C11: the store changes only in a log_search call of the loop, and every
\* such call (nLog counts them) comes right after a search call that returned
\* to the loop, is the one log call of that search, and carries that search's
\* parameters: the keyword, or the genre and the year or years.
C11_LogFollowsSearch ==
    [][ /\ store' # store => nLog' = nLog + 1
        /\ nLog' # nLog =>
          /\ op' = "log_search" /\ nLog' = nSearch
          /\ pc \in {"kw_log", "gy_log"}
          /\ op \in SearchOps /\ ~raised
          /\ op = "search_by_keyword" =>
                /\ args'.search_type = "keyword"
                /\ Field(args'.params, "keyword") = Some(args.keyword)
          /\ op = "search_by_genre_and_year" =>
                /\ args'.search_type = "genre_year"
                /\ Field(args'.params, "genre") = Some(args.genre)
                /\ \/ Field(args'.params, "year_range")
                        = Some(<<args.year_from, args.year_to>>)
                   \/ /\ args.year_from = args.year_to
                      /\ Field(args'.params, "year_range") = Some(<<args.year_from>>)
      ]_vars

\* a search that returned a full page and whose log write failed
C11_Witness ==
    /\ op = "log_search" /\ ret = FALSE /\ store = <<>>
    /\ Len(loc.results) = PageSize /\ nSearch = 1 /\ nLog = 1

\* C12: a log_search call of the keyword flow passes search_type "keyword" and
\* params of exactly keyword and page, the keyword being the one searched and
\* the page the page fetched plus 1 (2 for the search at offset 0), and a
\* successful call stores them; and when the event last written is one of the
\* keyword flow, the first event get_recent_queries returns is that event.
C12_KeywordEventLogged ==
    [][ /\ (pc = "kw_log" /\ nLog' # nLog) =>
              /\ args'.search_type = "keyword"
              /\ Len(args'.params) = 2
              /\ Field(args'.params, "keyword") = Some(args.keyword)
              /\ Field(args'.params, "page") = Some((args.offset \div PageSize) + 2)
              /\ ret' = TRUE =>
                    /\ store'[Len(store')].search_type = "keyword"
                    /\ store'[Len(store')].params = args'.params
        /\ ( /\ pc = "menu" /\ op' = "get_recent_queries" /\ env' = "ok"
             /\ store # <<>> /\ store[Len(store)].search_type = "keyword" ) =>
              ret'[1] = store[Len(store)]
      ]_vars

\* C13: whatever the user types and whatever the storage calls return, no
\* exception ends the loop: the process ends only from the main menu, by
\* choice 5.
C13_EndsOnlyByExit ==
    [][ /\ pc' # "crashed"
        /\ ~raised'
        /\ (pc' = "done" /\ pc # "done") => pc = "menu" ]_vars

PagePcs == {"kw_search", "kw_log", "kw_nav", "gy_search", "gy_log", "gy_nav"}

\* C14: in both pagination loops the page is at least 1; every search (nSearch
\* counts them) is called with limit 10 and offset (page - 1) * 10, which is
\* not negative; input 2 adds 1 to the page, input 1 takes 1 off when the page
\* is above 1 and else leaves it, any other input that stays in the loop
\* leaves it; and a search entered from outside the loops starts at page 1.
C14_Pagination ==
    [][ /\ pc' \in PagePcs => loc'.page >= 1
        /\ nSearch' # nSearch =>
              /\ op' \in SearchOps
              /\ args'.limit = 10
              /\ args'.offset = (loc.page - 1) * 10
              /\ args'.offset >= 0
        /\ (pc \in {"kw_nav", "gy_nav"} /\ pc' \in {"kw_search", "gy_search"}) =>
              loc'.page = IF loc'.nav = "2" THEN loc.page + 1
                          ELSE IF loc'.nav = "1" /\ loc.page > 1 THEN loc.page - 1
                          ELSE loc.page
        /\ (pc \notin PagePcs /\ pc' \in PagePcs) => loc'.page = 1
      ]_vars

\* the second page, fetched after input 2 on the first
C14_Witness ==
    /\ pc = "kw_log" /\ op = "search_by_keyword" /\ env = "ok"
    /\ loc.page = 2 /\ args.offset = 10 /\ Len(ret) = 1 /\ nSearch = 2

\* C15: in both pagination loops every navigation input other than "3" (Previous
\* on page 1 and unrecognised input included, which leave the page unchanged)
\* leads to the search step with the same search parameters, the search step
\* calls the search function with them and is followed by one log_search call,
\* so the number of log_search calls always equals the number of search calls
\* (less the one whose log call is about to happen).
C15_EveryDisplayLogged ==
    [][ /\ nLog' = nSearch' - (IF pc' \in {"kw_log", "gy_log"} THEN 1 ELSE 0)
        /\ (pc \in {"kw_nav", "gy_nav"} /\ pc' # "menu") =>
              /\ pc' = (IF pc = "kw_nav" THEN "kw_search" ELSE "gy_search")
              /\ loc'.keyword = loc.keyword /\ loc'.genre = loc.genre
              /\ loc'.year_from = loc.year_from /\ loc'.year_to = loc.year_to
              /\ loc'.year_choice = loc.year_choice
              /\ (loc'.nav \notin {"1", "2"} \/ (loc'.nav = "1" /\ loc.page = 1))
                    => loc'.page = loc.page
        /\ pc = "kw_search" =>
              /\ nSearch' = nSearch + 1 /\ pc' = "kw_log"
              /\ op' = "search_by_keyword" /\ args'.keyword = loc.keyword
              /\ args'.offset = (loc.page - 1) * 10
        /\ pc = "gy_search" =>
              /\ nSearch' = nSearch + 1 /\ pc' = "gy_log"
              /\ op' = "search_by_genre_and_year" /\ args'.genre = loc.genre
              /\ args'.year_from = loc.year_from /\ args'.year_to = loc.year_to
              /\ args'.offset = (loc.page - 1) * 10
        /\ pc \in {"kw_log", "gy_log"} =>
              /\ nLog' = nLog + 1 /\ op' = "log_search"
              /\ pc' = (IF pc = "kw_log" THEN "kw_nav" ELSE "gy_nav")
      ]_vars

\* page 1 of one keyword search shown and logged a second time after Previous
\* on page 1 or an unrecognised input
C15_Witness ==
    /\ pc = "kw_nav" /\ loc.nav \in {"1", "?"} /\ loc.page = 1
    /\ nSearch = 2 /\ nLog = 2 /\ op = "log_search" /\ ret = TRUE
    /\ Len(store) = 2 /\ store[1].search_type = "keyword"
    /\ store[2].params = store[1].params

====
